---- MODULE Spec2Model ----
(***************************************************************************)
(* resolveStyles (packages/fluentui/react-bindings/src/styles):            *)
(* lazily evaluated, theme-scoped memoisation of per-slot style objects    *)
(* and class names.                                                        *)
(*                                                                         *)
(* JavaScript values are represented as follows.                           *)
(*   - a string is a TLA+ string; template literals and join() are \o;     *)
(*   - a class name is a sequence of atoms, each atom a class token or the *)
(*     single blank " "; the empty string '' is <<>> (the falsy string);    *)
(*   - an object used as a map (a store, a memo) is a function whose       *)
(*     DOMAIN is the set of its own keys; {} is <<>>;                      *)
(*   - a props/variables value is [kind, entries]: kind is the JS type,    *)
(*     entries the own properties of a plain object in insertion order,    *)
(*     each <<name, literal>>;                                             *)
(*   - a style object is [decl, debug]: decl is its declaration block,     *)
(*     debug says whether it carries the reserved '_debug' payload.        *)
(***************************************************************************)
EXTENDS Naturals, Sequences, FiniteSets, TLC

VARIABLES
    env,           \* process-wide: NODE_ENV, isDebugEnabled, Provider's performance flags
    telemetry,     \* options.telemetry, shared by every call
    inputs,        \* the options the components of this run pass to resolveStyles()
    stylesCache,   \* WeakMap<ThemePrepared, Record<string, ICSSInJSStyle>>
    classesCache,  \* WeakMap<ThemePrepared, Record<string, string>>
    calls,         \* the results of resolveStyles() that are alive, in call order
    error          \* what the last call of resolveStyles() threw, "" when it returned

vars == <<env, telemetry, inputs, stylesCache, classesCache, calls, error>>

----------------------------------------------------------------------------
(* Bounds *)

MaxCalls == 2         \* results of resolveStyles() alive at once
MaxInvocations == 2   \* invocations of one style function / of the renderer per slot of a result
MaxHits == 2          \* cap of each cache-hit counter
MaxSeeds == 1         \* slots of the alive results assigned through a setter
Tick == 1             \* performance.now() difference measured around one computation
MaxFaults == 1        \* invocations of one collaborator per slot of a result that throw

DeclaredNames == {"Button"}          \* display names with a style set in theme.componentStyles
DeclaredSlots == <<"root", "icon">>  \* Object.keys of that style set

----------------------------------------------------------------------------
(* Strings and serialisation *)

\* Array.prototype.join
RECURSIVE join(_, _)
join(parts, sep) ==
    IF parts = <<>> THEN ""
    ELSE IF Len(parts) = 1 THEN parts[1]
    ELSE parts[1] \o sep \o join(Tail(parts), sep)

\* String(b) of a boolean inside a template literal
boolStr(b) == IF b THEN "true" ELSE "false"

Undefined == [kind |-> "undefined", entries |-> <<>>]
Null == [kind |-> "null", entries |-> <<>>]
Fn == [kind |-> "function", entries |-> <<>>]
Obj(entries) == [kind |-> "object", entries |-> entries]

RECURSIVE jsonMembers(_)
jsonMembers(es) ==
    IF es = <<>> THEN <<>>
    ELSE <<"\"" \o es[1][1] \o "\":" \o es[1][2]>> \o jsonMembers(Tail(es))

\* JSON.stringify, coerced to a string by the template literal that uses it:
\* of a plain object, the members whose value is not undefined, in own-key order.
JSONstringify(v) ==
    CASE v.kind = "object" ->
            "{" \o join(jsonMembers(SelectSeq(v.entries, LAMBDA e : e[2] # "undefined")), ",") \o "}"
      [] v.kind = "null" -> "null"
      [] OTHER -> "undefined"

----------------------------------------------------------------------------
(* Cache eligibility, lines 60-91 *)

noInlineStylesOverrides(props) == ~(props.design \/ props.styles)

isPlainObject(v) == v.kind = "object"
isNil(v) == v.kind \in {"undefined", "null"}

hasOnlyBooleanVariables(variables) ==
    \A i \in 1..Len(variables.entries) :
        variables.entries[i][2] \in {"null", "undefined", "true", "false"}

noVariableOverrides(perf, variables) ==
    LET initial == perf.enableBooleanVariablesCaching \/ isNil(variables)
    IN  IF perf.enableBooleanVariablesCaching
        THEN IF isPlainObject(variables)
             THEN (IF ~hasOnlyBooleanVariables(variables) THEN FALSE ELSE initial)
             ELSE (IF ~isNil(variables) THEN FALSE ELSE initial)
        ELSE initial

configurationError_InEveryBuild(production, perf) ==
    /\ ~perf.enableStylesCaching
    /\ perf.enableBooleanVariablesCaching

\* the check of the "performance" settings, which throws outside production
configurationError(production, perf) ==
    /\ ~production
    /\ ~perf.enableStylesCaching
    /\ perf.enableBooleanVariablesCaching

cacheEnabled_IgnoresInlineOverrides(perf, props) ==
    perf.enableStylesCaching /\ noVariableOverrides(perf, props.variables)

cacheEnabled_IgnoresVariables(perf, props) ==
    perf.enableStylesCaching /\ noInlineStylesOverrides(props)

cacheEnabled(perf, props) ==
    /\ perf.enableStylesCaching
    /\ noInlineStylesOverrides(props)
    /\ noVariableOverrides(perf, props.variables)

----------------------------------------------------------------------------
(* Cache key, lines 145-157 *)

propsCacheKey(o) ==
    IF cacheEnabled(o.performance, o.props) THEN JSONstringify(Obj(o.props.stylesProps)) ELSE ""

variablesCacheKey(o) ==
    IF cacheEnabled(o.performance, o.props) /\ o.performance.enableBooleanVariablesCaching
    THEN JSONstringify(o.props.variables)
    ELSE ""

componentCacheKey(o) ==
    IF cacheEnabled(o.performance, o.props)
    THEN join(o.allDisplayNames, ":") \o ":" \o propsCacheKey(o) \o ":" \o variablesCacheKey(o)
            \o ":" \o boolStr(o.rtl) \o boolStr(o.disableAnimations)
    ELSE ""

slotCacheKey_WithoutSlotName(cck, slotName) == cck

slotCacheKey(cck, slotName) == cck \o slotName

----------------------------------------------------------------------------
(* Merged style set, lines 94-114 *)

declaredOf_KeepsUndeclared(o) == o.allDisplayNames

\* the display names of the call that theme.componentStyles declares (.filter(Boolean))
declaredOf(o) == SelectSeq(o.allDisplayNames, LAMBDA n : n \in DeclaredNames)

Range(s) == {s[i] : i \in 1..Len(s)}

\* Object.keys(mergedStyles)
mergedSlots(o) ==
    LET themed == IF declaredOf(o) = <<>> THEN {"root"} ELSE Range(DeclaredSlots)
    IN  IF noInlineStylesOverrides(o.props) THEN themed ELSE themed \cup {"root"}

\* whether the build extracts debug payloads: NODE_ENV !== 'production' && isDebugEnabled
debugOn(e) == ~e.production /\ e.isDebugEnabled

\* mergedStyles[slotName](styleParam): the style object the slot's style function
\* yields. The function is pure; the result names everything it may depend on.
slotStyle(o, slotName, e) ==
    LET themed == declaredOf(o) # <<>> /\ slotName \in Range(DeclaredSlots)
        inline == slotName = "root" /\ ~noInlineStylesOverrides(o.props)
    IN  IF ~themed /\ ~inline
        THEN [decl |-> "", debug |-> FALSE]          \* { root: () => ({}) }
        ELSE [decl |-> o.theme \o "/" \o join(declaredOf(o), ":") \o "/" \o slotName
                        \o "/" \o JSONstringify(Obj(o.props.stylesProps))
                        \o "/" \o o.props.variables.kind \o JSONstringify(o.props.variables)
                        \o "/" \o join(o.props.className, "")
                        \o "/" \o boolStr(o.rtl) \o boolStr(o.disableAnimations)
                        \o (IF inline /\ o.props.design THEN "+design" ELSE "")
                        \o (IF inline /\ o.props.styles THEN "+styles" ELSE ""),
              debug |-> debugOn(e)]

\* renderer.renderRule(styleObj, rendererParam): an empty declaration block renders
\* to the empty class name; any other to one generated class token.
renderRule(styleObj, o) ==
    IF styleObj.decl = "" THEN <<>>
    ELSE <<"gen(" \o styleObj.decl \o "," \o (IF o.rtl THEN "rtl" ELSE "ltr")
             \o "," \o boolStr(o.disableAnimations)
             \o "," \o boolStr(o.performance.enableSanitizeCssPlugin) \o ")">>

cx_KeepsFalsy(a, b, c) == a \o <<" ">> \o b \o <<" ">> \o c

\* classnames(a, b, c): the truthy arguments joined by one blank
cx(a, b, c) ==
    LET ab == IF a = <<>> THEN b ELSE IF b = <<>> THEN a ELSE a \o <<" ">> \o b
    IN  IF ab = <<>> THEN c ELSE IF c = <<>> THEN ab ELSE ab \o <<" ">> \o c

----------------------------------------------------------------------------
(* Inputs of the calls *)

Perf(caching, booleans) ==
    [enableStylesCaching |-> caching, enableBooleanVariablesCaching |-> booleans,
     enableSanitizeCssPlugin |-> FALSE]

PerfFlags == {Perf(c, b) : c, b \in BOOLEAN}

BaseProps ==
    [className |-> <<>>, design |-> FALSE, styles |-> FALSE,
     variables |-> Undefined, stylesProps |-> <<>>]

BaseOptions(perf) ==
    [theme |-> "A", allDisplayNames |-> <<"Button">>, primaryDisplayName |-> "Button",
     className |-> <<"ui-button">>, props |-> BaseProps,
     rtl |-> FALSE, disableAnimations |-> FALSE, performance |-> perf]

\* the call that differs from the base call in the one input named
Variant(perf, input) ==
    LET b == BaseOptions(perf)
    IN  CASE input = "theme" -> [b EXCEPT !.theme = "B"]
          [] input = "displayName" ->
                [b EXCEPT !.allDisplayNames = <<"Ghost">>, !.primaryDisplayName = "Ghost"]
          [] input = "displayNames" -> [b EXCEPT !.allDisplayNames = <<"Button", "Ghost">>]
          [] input = "componentClassName" -> [b EXCEPT !.className = <<>>]
          [] input = "className" -> [b EXCEPT !.props.className = <<"custom">>]
          [] input = "design" -> [b EXCEPT !.props.design = TRUE]
          [] input = "styles" -> [b EXCEPT !.props.styles = TRUE]
          [] input = "stylesProps" -> [b EXCEPT !.props.stylesProps = <<<<"primary", "true">>>>]
          [] input = "rtl" -> [b EXCEPT !.rtl = TRUE]
          [] input = "booleanVariables" ->
                [b EXCEPT !.props.variables = Obj(<<<<"isOn", "true">>>>)]
          [] input = "variables" ->
                [b EXCEPT !.props.variables = Obj(<<<<"color", "\"red\"">>>>)]
          [] input = "variablesFunction" -> [b EXCEPT !.props.variables = Fn]

\* a run renders the base component and one variant of it
Universe(perf, input) == {BaseOptions(perf), Variant(perf, input)}

\* values assigned through the setters
SeedStyles == {[decl |-> "seeded", debug |-> FALSE]}
SeedClasses == {<<>>, <<"seeded">>}

----------------------------------------------------------------------------
(* State *)

NoTelemetry == [present |-> FALSE, enabled |-> FALSE, performance |-> <<>>]

ZeroRecord ==
    [stylesRootCacheHits |-> 0, stylesSlotsCacheHits |-> 0,
     msResolveStylesTotal |-> 0, msRenderStylesTotal |-> 0]

Telemetries ==
    {[present |-> TRUE, enabled |-> en,
      performance |-> [n \in {"Button", "Ghost"} |-> ZeroRecord]] : en \in BOOLEAN}
    \cup {[present |-> TRUE, enabled |-> TRUE, performance |-> <<>>]}

Env(production, debug, perf) ==
    [production |-> production, isDebugEnabled |-> debug, performance |-> perf]

InitWith(e, tel, universe) ==
    /\ env = e
    /\ telemetry = tel
    /\ inputs = universe
    /\ stylesCache = <<>>
    /\ classesCache = <<>>
    /\ calls = <<>>
    /\ error = ""

\* the runs of Spec: a build, the Provider's performance flags, the input that varies
Scenarios ==
    ({FALSE} \X {Perf(TRUE, FALSE)}
        \X {"theme", "displayName", "componentClassName", "className", "design",
            "styles", "stylesProps"})
    \cup ({FALSE} \X {Perf(FALSE, FALSE)} \X {"displayName", "className"})
    \cup ({FALSE} \X {Perf(TRUE, TRUE)} \X {"booleanVariables", "variables"})
    \cup ({FALSE, TRUE} \X {Perf(FALSE, TRUE)} \X {"booleanVariables"})

Init ==
    \E sc \in Scenarios :
        InitWith(Env(sc[1], FALSE, sc[2]), NoTelemetry, Universe(sc[2], sc[3]))

----------------------------------------------------------------------------
(* resolveStyles(options, resolvedVariables), lines 43-291 *)

withStore_AlwaysResets(cache, theme, enabled) ==
    IF enabled THEN (theme :> <<>>) @@ cache ELSE cache

\* lines 136-143: the first cache-enabled call for a theme creates its store
withStore(cache, theme, enabled) ==
    IF enabled /\ theme \notin DOMAIN cache THEN (theme :> <<>>) @@ cache ELSE cache

newResult(o) ==
    [options |-> o,
     cacheEnabled |-> cacheEnabled(o.performance, o.props),
     componentCacheKey |-> componentCacheKey(o),
     slots |-> mergedSlots(o),
     resolvedStyles |-> <<>>,          \* slot |-> resolvedStyles[`${slot}__return`]
     classes |-> <<>>,                 \* slot |-> classes[`${slot}__return`]
     resolvedStylesDebug |-> <<>>,
     styleFnCalls |-> [s \in mergedSlots(o) |-> 0],   \* invocations of mergedStyles[slot]
     renderCalls |-> [s \in mergedSlots(o) |-> 0],    \* invocations of renderer.renderRule
     seededStyles |-> {}, seededClasses |-> {}]       \* slots assigned so far

resolveStyles(o) ==
    /\ Len(calls) < MaxCalls
    /\ IF configurationError(env.production, o.performance)
       THEN /\ error' = "configuration"
            /\ UNCHANGED <<stylesCache, classesCache, calls>>
       ELSE /\ calls' = Append(calls, newResult(o))
            /\ stylesCache' = withStore(stylesCache, o.theme, cacheEnabled(o.performance, o.props))
            /\ classesCache' = withStore(classesCache, o.theme, cacheEnabled(o.performance, o.props))
            /\ error' = ""
    /\ UNCHANGED <<env, telemetry, inputs>>

Resolve == \E o \in inputs : resolveStyles(o)

----------------------------------------------------------------------------
(* Telemetry, lines 186, 203-205, 233-239, 259, 277-279 *)

\* telemetry?.enabled && telemetry.performance[primaryDisplayName]
timed(tel, name) == tel.present /\ tel.enabled /\ name \in DOMAIN tel.performance

addResolveTime(tel, name) ==
    IF timed(tel, name)
    THEN [tel EXCEPT !.performance[name].msResolveStylesTotal = @ + Tick]
    ELSE tel

addRenderTime(tel, name) ==
    IF timed(tel, name)
    THEN [tel EXCEPT !.performance[name].msRenderStylesTotal = @ + Tick]
    ELSE tel

\* line 233: telemetry?.performance[primaryDisplayName]
countsHits(tel, name) == tel.present /\ name \in DOMAIN tel.performance

addCacheHit_AlwaysRoot(tel, name, slotName) ==
    IF countsHits(tel, name)
    THEN [tel EXCEPT !.performance[name].stylesRootCacheHits = @ + 1]
    ELSE tel

addCacheHit(tel, name, slotName) ==
    IF countsHits(tel, name)
    THEN IF slotName = "root"
         THEN [tel EXCEPT !.performance[name].stylesRootCacheHits = @ + 1]
         ELSE [tel EXCEPT !.performance[name].stylesSlotsCacheHits = @ + 1]
    ELSE tel

----------------------------------------------------------------------------
(* The accessors of resolvedStyles[slotName], lines 159-209 *)

storeOf_AnyTheme(cache, theme) ==
    IF \E t \in DOMAIN cache : cache[t] # <<>>
    THEN cache[CHOOSE t \in DOMAIN cache : cache[t] # <<>>]
    ELSE <<>>

\* stylesCache.get(theme) || {}
storeOf(cache, theme) == IF theme \in DOMAIN cache THEN cache[theme] ELSE <<>>

putIfEnabled_NeverStores(cache, enabled, theme, key, val) == cache

putIfEnabled_Always(cache, enabled, theme, key, val) ==
    (theme :> ((key :> val) @@ storeOf(cache, theme))) @@ cache

\* cache.set(theme, {...cache.get(theme), [slotCacheKey]: val}) when caching is enabled
putIfEnabled(cache, enabled, theme, key, val) ==
    IF enabled THEN (theme :> ((key :> val) @@ storeOf(cache, theme))) @@ cache ELSE cache

styleCompute_KeepsPayload(r, slotName, sc, tel) ==
    LET o == r.options
        key == slotCacheKey(r.componentCacheKey, slotName)
        raw == slotStyle(o, slotName, env)
        dbg == IF debugOn(env)
               THEN (slotName :> (IF raw.debug THEN "debug:" \o raw.decl ELSE "undefined"))
                       @@ r.resolvedStylesDebug
               ELSE r.resolvedStylesDebug
    IN  [val |-> raw,
         r |-> [r EXCEPT !.resolvedStyles = (slotName :> raw) @@ @,
                         !.resolvedStylesDebug = dbg,
                         !.styleFnCalls[slotName] = @ + 1],
         sc |-> putIfEnabled(sc, r.cacheEnabled, o.theme, key, raw),
         tel |-> addResolveTime(tel, o.primaryDisplayName),
         hit |-> FALSE, invoked |-> TRUE]

\* lines 186-207: the style function runs; in a debug build the payload moves to
\* resolvedStylesDebug and leaves the object the memo and the store both refer to
styleCompute(r, slotName, sc, tel) ==
    LET o == r.options
        key == slotCacheKey(r.componentCacheKey, slotName)
        raw == slotStyle(o, slotName, env)
        val == IF debugOn(env) THEN [raw EXCEPT !.debug = FALSE] ELSE raw
        dbg == IF debugOn(env)
               THEN (slotName :> (IF raw.debug THEN "debug:" \o raw.decl ELSE "undefined"))
                       @@ r.resolvedStylesDebug
               ELSE r.resolvedStylesDebug
    IN  [val |-> val,
         r |-> [r EXCEPT !.resolvedStyles = (slotName :> val) @@ @,
                         !.resolvedStylesDebug = dbg,
                         !.styleFnCalls[slotName] = @ + 1],
         sc |-> putIfEnabled(sc, r.cacheEnabled, o.theme, key, val),
         tel |-> addResolveTime(tel, o.primaryDisplayName),
         hit |-> FALSE, invoked |-> TRUE]

styleGet_WithoutMemo(r, slotName, sc, tel) ==
    LET o == r.options
        key == slotCacheKey(r.componentCacheKey, slotName)
        stylesThemeCache == storeOf(sc, o.theme)
    IN  IF r.cacheEnabled /\ key \in DOMAIN stylesThemeCache
        THEN [val |-> stylesThemeCache[key], r |-> r, sc |-> sc, tel |-> tel,
              hit |-> TRUE, invoked |-> FALSE]
        ELSE styleCompute(r, slotName, sc, tel)

styleGet_WithoutStore(r, slotName, sc, tel) ==
    IF slotName \in DOMAIN r.resolvedStyles
    THEN [val |-> r.resolvedStyles[slotName], r |-> r, sc |-> sc, tel |-> tel,
          hit |-> FALSE, invoked |-> FALSE]
    ELSE styleCompute(r, slotName, sc, tel)

styleGet_MemoFirst(r, slotName, sc, tel) ==
    LET o == r.options
        key == slotCacheKey(r.componentCacheKey, slotName)
        stylesThemeCache == storeOf(sc, o.theme)
    IN  IF slotName \in DOMAIN r.resolvedStyles
        THEN [val |-> r.resolvedStyles[slotName], r |-> r, sc |-> sc, tel |-> tel,
              hit |-> FALSE, invoked |-> FALSE]
        ELSE IF r.cacheEnabled /\ key \in DOMAIN stylesThemeCache
        THEN [val |-> stylesThemeCache[key], r |-> r, sc |-> sc, tel |-> tel,
              hit |-> TRUE, invoked |-> FALSE]
        ELSE styleCompute(r, slotName, sc, tel)

\* get(): the value returned and the state it leaves, given the result r = calls[i]
styleGet(r, slotName, sc, tel) ==
    LET o == r.options
        key == slotCacheKey(r.componentCacheKey, slotName)
        stylesThemeCache == storeOf(sc, o.theme)
    IN  IF r.cacheEnabled /\ key \in DOMAIN stylesThemeCache
        THEN \* lines 175-180: served from the theme's store
             [val |-> stylesThemeCache[key], r |-> r, sc |-> sc, tel |-> tel,
              hit |-> TRUE, invoked |-> FALSE]
        ELSE IF slotName \in DOMAIN r.resolvedStyles
        THEN \* lines 182-184: computed or assigned earlier on this result
             [val |-> r.resolvedStyles[slotName], r |-> r, sc |-> sc, tel |-> tel,
              hit |-> FALSE, invoked |-> FALSE]
        ELSE styleCompute(r, slotName, sc, tel)

\* the number of slots assigned so far, over the alive results
RECURSIVE seeds(_)
seeds(i) ==
    IF i = 0 THEN 0
    ELSE Cardinality(calls[i].seededStyles) + Cardinality(calls[i].seededClasses) + seeds(i - 1)

mayAssign(assignedBefore) == assignedBefore \/ seeds(Len(calls)) < MaxSeeds

ReadStyle(i, slotName) ==
    LET g == styleGet(calls[i], slotName, stylesCache, telemetry)
    IN  /\ g.r.styleFnCalls[slotName] <= MaxInvocations
        /\ calls' = [calls EXCEPT ![i] = g.r]
        /\ stylesCache' = g.sc
        /\ telemetry' = g.tel
        /\ UNCHANGED <<env, inputs, classesCache, error>>

\* set(val), lines 162-172
WriteStyle(i, slotName, val) ==
    LET r == calls[i]
        key == slotCacheKey(r.componentCacheKey, slotName)
    IN  /\ mayAssign(slotName \in r.seededStyles)
        /\ stylesCache' = putIfEnabled(stylesCache, r.cacheEnabled, r.options.theme, key, val)
        /\ calls' = [calls EXCEPT ![i] =
                        [r EXCEPT !.resolvedStyles = (slotName :> val) @@ @,
                                  !.seededStyles = @ \cup {slotName}]]
        /\ UNCHANGED <<env, telemetry, inputs, classesCache, error>>

----------------------------------------------------------------------------
(* The accessors of classes[slotName], lines 211-283 *)

\* a string is truthy unless it is ''
truthy(str) == str # <<>>

\* the value a read of classes[slotName] returns for the class c it found or rendered
composed(o, slotName, c) ==
    IF slotName = "root" THEN cx(o.className, c, o.props.className) ELSE c

classCached_TruthyOnly(classesThemeCache, key) ==
    /\ key \in DOMAIN classesThemeCache
    /\ truthy(classesThemeCache[key])

\* line 232: classesThemeCache[slotCacheKey] || classesThemeCache[slotCacheKey] === ''
classCached(classesThemeCache, key) ==
    /\ key \in DOMAIN classesThemeCache
    /\ (truthy(classesThemeCache[key]) \/ classesThemeCache[key] = <<>>)

\* line 251: classes[lazyEvaluationKey]
classMemoized(r, slotName) ==
    /\ slotName \in DOMAIN r.classes
    /\ truthy(r.classes[slotName])

classGet(r, slotName, sc, cc, tel) ==
    LET o == r.options
        key == slotCacheKey(r.componentCacheKey, slotName)
        classesThemeCache == storeOf(cc, o.theme)
    IN  IF r.cacheEnabled /\ classCached(classesThemeCache, key)
        THEN \* lines 225-245
             [val |-> composed(o, slotName, classesThemeCache[key]),
              r |-> r, sc |-> sc, cc |-> cc,
              tel |-> addCacheHit(tel, o.primaryDisplayName, slotName),
              hit |-> TRUE, invokedStyle |-> FALSE, invokedRender |-> FALSE]
        ELSE IF classMemoized(r, slotName)
        THEN \* lines 251-255
             [val |-> composed(o, slotName, r.classes[slotName]),
              r |-> r, sc |-> sc, cc |-> cc, tel |-> tel,
              hit |-> FALSE, invokedStyle |-> FALSE, invokedRender |-> FALSE]
        ELSE \* lines 257-281: resolvedStyles[slotName] is read through its getter,
             \* then rendered (a style object is always truthy)
             LET g == styleGet(r, slotName, sc, tel)
                 rendered == renderRule(g.val, o)
             IN  [val |-> composed(o, slotName, rendered),
                  r |-> [g.r EXCEPT !.classes = (slotName :> rendered) @@ @,
                                    !.renderCalls[slotName] = @ + 1],
                  sc |-> g.sc,
                  cc |-> putIfEnabled(cc, r.cacheEnabled, o.theme, key, rendered),
                  tel |-> addRenderTime(g.tel, o.primaryDisplayName),
                  hit |-> FALSE, invokedStyle |-> g.invoked, invokedRender |-> TRUE]

withinCaps(tel) ==
    \A n \in DOMAIN tel.performance :
        /\ tel.performance[n].stylesRootCacheHits <= MaxHits
        /\ tel.performance[n].stylesSlotsCacheHits <= MaxHits

ReadClass(i, slotName) ==
    LET g == classGet(calls[i], slotName, stylesCache, classesCache, telemetry)
    IN  /\ g.r.renderCalls[slotName] <= MaxInvocations
        /\ withinCaps(g.tel)
        /\ calls' = [calls EXCEPT ![i] = g.r]
        /\ stylesCache' = g.sc
        /\ classesCache' = g.cc
        /\ telemetry' = g.tel
        /\ UNCHANGED <<env, inputs, error>>

\* set(val), lines 214-223
WriteClass(i, slotName, val) ==
    LET r == calls[i]
        key == slotCacheKey(r.componentCacheKey, slotName)
    IN  /\ mayAssign(slotName \in r.seededClasses)
        /\ classesCache' = putIfEnabled(classesCache, r.cacheEnabled, r.options.theme, key, val)
        /\ calls' = [calls EXCEPT ![i] =
                        [r EXCEPT !.classes = (slotName :> val) @@ @,
                                  !.seededClasses = @ \cup {slotName}]]
        /\ UNCHANGED <<env, telemetry, inputs, stylesCache, error>>

----------------------------------------------------------------------------
Next ==
    \/ Resolve
    \/ \E i \in 1..Len(calls) : \E slotName \in calls[i].slots :
          \/ ReadStyle(i, slotName)
          \/ ReadClass(i, slotName)
          \/ \E val \in SeedStyles : WriteStyle(i, slotName, val)
          \/ \E val \in SeedClasses : WriteClass(i, slotName, val)

Spec == Init /\ [][Next]_vars

----------------------------------------------------------------------------
(* What a read of a slot of calls[i] returns and does in the current state *)

styleRead(i, slotName) == styleGet(calls[i], slotName, stylesCache, telemetry)
classRead(i, slotName) == classGet(calls[i], slotName, stylesCache, classesCache, telemetry)

\* the same in the state a step leads to
styleReadNext(i, slotName) == styleGet(calls'[i], slotName, stylesCache', telemetry')
classReadNext(i, slotName) ==
    classGet(calls'[i], slotName, stylesCache', classesCache', telemetry')

Results == 1..Len(calls)

\* a step that reads some slot of some result
IsRead ==
    \E i \in Results : \E slotName \in calls[i].slots :
        ReadStyle(i, slotName) \/ ReadClass(i, slotName)

----------------------------------------------------------------------------
(* C1..C10 *)

\* C1: on a result obtained with caching not in effect, reads of resolvedStyles[slot]
\* (the slot not assigned through the setter) invoke the slot's style function exactly
\* once, on the first read, and every later read returns the value the first returned.
C1_StyleResolvedOncePerCall ==
    [][\A i \in Results : \A slotName \in calls[i].slots :
          (~calls[i].cacheEnabled /\ slotName \notin calls'[i].seededStyles) =>
              /\ calls'[i].styleFnCalls[slotName] <= 1
              /\ ReadStyle(i, slotName) =>
                    /\ styleRead(i, slotName).invoked <=> calls[i].styleFnCalls[slotName] = 0
                    /\ calls'[i].styleFnCalls[slotName] = 1
              /\ (IsRead /\ (calls[i].styleFnCalls[slotName] = 1 \/ ReadStyle(i, slotName))) =>
                    /\ styleReadNext(i, slotName).val = styleRead(i, slotName).val
                    /\ ~styleReadNext(i, slotName).invoked
      ]_vars

C1_Witness ==
    \E i \in Results : \E slotName \in calls[i].slots :
        /\ ~calls[i].cacheEnabled
        /\ slotName \notin calls[i].seededStyles
        /\ calls[i].styleFnCalls[slotName] = 1
        /\ ~styleRead(i, slotName).invoked
        /\ styleRead(i, slotName).val = slotStyle(calls[i].options, slotName, env)

\* C2: on a result obtained with caching not in effect, the renderer is invoked at
\* most once per slot, however often classes[slot] is read and whatever class name
\* the renderer returns.
C2_RendererAtMostOncePerCall ==
    \A i \in Results : \A slotName \in calls[i].slots :
        (~calls[i].cacheEnabled /\ slotName \notin calls[i].seededClasses) =>
            calls[i].renderCalls[slotName] <= 1

\* the results that use the same entries of the theme's stores as calls[i]
sameKey(i, j) ==
    /\ calls[i].cacheEnabled
    /\ calls[j].cacheEnabled
    /\ calls[i].options.theme = calls[j].options.theme
    /\ calls[i].componentCacheKey = calls[j].componentCacheKey

\* over the results cs[1..n] that share calls[i]'s entries: the invocations of the
\* slot's style function, of the renderer, and whether the slot was assigned
RECURSIVE styleFnTotal(_, _, _, _)
styleFnTotal(cs, n, i, slotName) ==
    IF n = 0 THEN 0
    ELSE (IF sameKey(i, n) /\ slotName \in cs[n].slots THEN cs[n].styleFnCalls[slotName] ELSE 0)
            + styleFnTotal(cs, n - 1, i, slotName)

RECURSIVE renderTotal(_, _, _, _)
renderTotal(cs, n, i, slotName) ==
    IF n = 0 THEN 0
    ELSE (IF sameKey(i, n) /\ slotName \in cs[n].slots THEN cs[n].renderCalls[slotName] ELSE 0)
            + renderTotal(cs, n - 1, i, slotName)

assigned(cs, i, slotName) ==
    \E n \in Results :
        /\ sameKey(i, n)
        /\ slotName \in cs[n].seededStyles \cup cs[n].seededClasses

\* C3: over the reads of two results obtained against the same theme with identical
\* cache-eligible inputs (no slot assigned through a setter), the slot's style function
\* and the renderer are invoked once in total, by the first read that needs them, and
\* a read of either result returns what the read of the other returned.
C3_CacheReuse ==
    [][\A i, j \in Results : \A slotName \in calls[i].slots :
          (sameKey(i, j) /\ ~assigned(calls', i, slotName)) =>
              /\ styleFnTotal(calls', Len(calls), i, slotName) <= 1
              /\ renderTotal(calls', Len(calls), i, slotName) <= 1
              /\ ReadStyle(i, slotName) =>
                    /\ styleFnTotal(calls', Len(calls), i, slotName) = 1
                    /\ styleReadNext(j, slotName).val = styleRead(i, slotName).val
                    /\ ~styleReadNext(j, slotName).invoked
              /\ ReadClass(i, slotName) =>
                    /\ styleFnTotal(calls', Len(calls), i, slotName) = 1
                    /\ renderTotal(calls', Len(calls), i, slotName) = 1
                    /\ ~classReadNext(j, slotName).invokedStyle
                    /\ ~classReadNext(j, slotName).invokedRender
                    /\ calls[i].options = calls[j].options =>
                          classReadNext(j, slotName).val = classRead(i, slotName).val
              /\ (IsRead /\ styleFnTotal(calls, Len(calls), i, slotName) = 1) =>
                    styleReadNext(j, slotName).val = styleRead(j, slotName).val
              /\ (IsRead /\ renderTotal(calls, Len(calls), i, slotName) = 1) =>
                    classReadNext(j, slotName).val = classRead(j, slotName).val
      ]_vars

C3_Witness ==
    \E i, j \in Results : \E slotName \in calls[i].slots :
        /\ i # j
        /\ calls[i].options = calls[j].options
        /\ sameKey(i, j)
        /\ ~assigned(calls, i, slotName)
        /\ calls[i].styleFnCalls[slotName] = 0
        /\ calls[j].renderCalls[slotName] = 0
        /\ calls[j].styleFnCalls[slotName] = 1
        /\ calls[i].renderCalls[slotName] = 1
        /\ styleRead(i, slotName).val = styleRead(j, slotName).val
        /\ classRead(i, slotName).val = classRead(j, slotName).val

\* the style object the slot's style function yields for calls[i], as the getter
\* returns it
freshStyle(i, slotName) ==
    LET raw == slotStyle(calls[i].options, slotName, env)
    IN  IF debugOn(env) THEN [raw EXCEPT !.debug = FALSE] ELSE raw

inlineOverride(i) == calls[i].options.props.design \/ calls[i].options.props.styles

\* C5: with enableStylesCaching on, a result of a call that supplies props.styles or
\* props.design has caching off: no read of a slot's style value is served from the
\* theme's store, and the first read (the slot not assigned before) invokes the slot's
\* style function and returns what it yields for this call.
C5_OverrideBypassesCache ==
    \A i \in Results : \A slotName \in calls[i].slots :
        (env.performance.enableStylesCaching /\ inlineOverride(i)) =>
            /\ ~calls[i].cacheEnabled
            /\ ~styleRead(i, slotName).hit
            /\ (calls[i].styleFnCalls[slotName] = 0 /\ slotName \notin calls[i].seededStyles) =>
                  /\ styleRead(i, slotName).invoked
                  /\ styleRead(i, slotName).val = freshStyle(i, slotName)
            /\ (calls[i].styleFnCalls[slotName] > 0 /\ slotName \notin calls[i].seededStyles) =>
                  styleRead(i, slotName).val = freshStyle(i, slotName)

C5_Witness ==
    \E i, j \in Results :
        /\ i < j
        /\ env.performance.enableStylesCaching
        /\ calls[i].cacheEnabled
        /\ calls[i].options.theme = calls[j].options.theme
        /\ slotCacheKey(calls[i].componentCacheKey, "root")
                \in DOMAIN stylesCache[calls[i].options.theme]
        /\ inlineOverride(j)
        /\ calls[j].styleFnCalls["root"] = 1
        /\ styleRead(j, "root").val = freshStyle(j, "root")
        /\ styleRead(j, "root").val # styleRead(i, "root").val

keyOf(i, slotName) == slotCacheKey(calls[i].componentCacheKey, slotName)
themeOf(i) == calls[i].options.theme

\* a step that reads or assigns the slot of calls[i]
Accesses(i, slotName) ==
    \/ ReadStyle(i, slotName)
    \/ ReadClass(i, slotName)
    \/ \E val \in SeedStyles : WriteStyle(i, slotName, val)
    \/ \E val \in SeedClasses : WriteClass(i, slotName, val)

\* C6: a call, a read or an assignment against one theme leaves the stores of every
\* other theme unchanged, and a read against a theme whose own store has no entry under
\* the slot's key is a miss that invokes the style function (the renderer), whatever
\* another theme's store holds under the same key.
C6_ThemesAreIsolated ==
    [][/\ \A u \in DOMAIN stylesCache :
              (Len(calls') > Len(calls)) =>
                  /\ stylesCache'[u] = stylesCache[u]
                  /\ classesCache'[u] = classesCache[u]
       /\ \A i \in Results : \A slotName \in calls[i].slots :
              /\ Accesses(i, slotName) =>
                    \A u \in DOMAIN stylesCache \ {themeOf(i)} :
                        /\ stylesCache'[u] = stylesCache[u]
                        /\ classesCache'[u] = classesCache[u]
              /\ (calls[i].cacheEnabled
                    /\ keyOf(i, slotName) \notin DOMAIN stylesCache[themeOf(i)]) =>
                    /\ styleRead(i, slotName).invoked
                    /\ styleRead(i, slotName).val = freshStyle(i, slotName)
              /\ (calls[i].cacheEnabled
                    /\ keyOf(i, slotName) \notin DOMAIN classesCache[themeOf(i)]) =>
                    classRead(i, slotName).invokedRender
      ]_vars

C6_Witness ==
    \E i, j \in Results :
        /\ themeOf(i) = "A" /\ themeOf(j) = "B"
        /\ calls[i].cacheEnabled /\ calls[j].cacheEnabled
        /\ calls[i].componentCacheKey = calls[j].componentCacheKey
        /\ keyOf(i, "root") \in DOMAIN stylesCache["A"]
        /\ keyOf(j, "root") \in DOMAIN stylesCache["B"]
        /\ calls[j].styleFnCalls["root"] = 1
        /\ calls[j].renderCalls["root"] = 1
        /\ stylesCache["A"][keyOf(i, "root")] # stylesCache["B"][keyOf(j, "root")]
        /\ keyOf(i, "icon") \in DOMAIN classesCache["A"]
        /\ keyOf(j, "icon") \notin DOMAIN classesCache["B"]

\* C7: an entry of the styles store or of the classes store is never removed; its
\* value changes only by an assignment to a slot with that key on a cache-enabled
\* result of that theme; and a read of a slot with that key on a cache-enabled result is
\* served from the store: it returns the stored value (for classes.root composed with
\* the call's class names) and invokes neither the style function nor the renderer.
C7_CacheEntriesAreStable ==
    [][/\ \A t \in DOMAIN stylesCache :
              /\ \A k \in DOMAIN stylesCache[t] :
                    /\ k \in DOMAIN stylesCache'[t]
                    /\ stylesCache'[t][k] # stylesCache[t][k] =>
                          \E i \in Results : \E slotName \in calls[i].slots :
                              /\ calls[i].cacheEnabled /\ themeOf(i) = t
                              /\ keyOf(i, slotName) = k
                              /\ \E val \in SeedStyles : WriteStyle(i, slotName, val)
              /\ \A k \in DOMAIN classesCache[t] :
                    /\ k \in DOMAIN classesCache'[t]
                    /\ classesCache'[t][k] # classesCache[t][k] =>
                          \E i \in Results : \E slotName \in calls[i].slots :
                              /\ calls[i].cacheEnabled /\ themeOf(i) = t
                              /\ keyOf(i, slotName) = k
                              /\ \E val \in SeedClasses : WriteClass(i, slotName, val)
       /\ \A i \in Results : \A slotName \in calls[i].slots :
              calls[i].cacheEnabled =>
                  /\ keyOf(i, slotName) \in DOMAIN stylesCache[themeOf(i)] =>
                        /\ styleRead(i, slotName).hit
                        /\ ~styleRead(i, slotName).invoked
                        /\ styleRead(i, slotName).val = stylesCache[themeOf(i)][keyOf(i, slotName)]
                  /\ keyOf(i, slotName) \in DOMAIN classesCache[themeOf(i)] =>
                        /\ classRead(i, slotName).hit
                        /\ ~classRead(i, slotName).invokedStyle
                        /\ ~classRead(i, slotName).invokedRender
                        /\ classRead(i, slotName).val =
                              composed(calls[i].options, slotName,
                                       classesCache[themeOf(i)][keyOf(i, slotName)])
      ]_vars

C7_Witness ==
    \E i, j \in Results :
        /\ i # j
        /\ sameKey(i, j)
        /\ "root" \in calls[i].seededStyles
        /\ calls[j].styleFnCalls["root"] = 1
        /\ calls[j].resolvedStyles["root"] = freshStyle(j, "root")
        /\ stylesCache[themeOf(j)][keyOf(j, "root")] \in SeedStyles
        /\ styleRead(j, "root").val \in SeedStyles
        /\ keyOf(j, "icon") \in DOMAIN classesCache[themeOf(j)]
        /\ calls[i].renderCalls["icon"] + calls[j].renderCalls["icon"] = 1

\* C8: after an assignment of a value to resolvedStyles[slot] (to classes[slot]), the
\* next read of the slot on the same result returns that value (for classes.root
\* composed) without invoking the style function (the renderer); with caching in
\* effect the same holds of the next read on every result that shares the key.
C8_AssignedValueIsReadBack ==
    [][\A i \in Results : \A slotName \in calls[i].slots :
          /\ \A val \in SeedStyles :
                WriteStyle(i, slotName, val) =>
                    /\ styleReadNext(i, slotName).val = val
                    /\ ~styleReadNext(i, slotName).invoked
                    /\ \A j \in Results :
                          sameKey(i, j) =>
                              /\ styleReadNext(j, slotName).val = val
                              /\ ~styleReadNext(j, slotName).invoked
          /\ \A val \in SeedClasses :
                WriteClass(i, slotName, val) =>
                    /\ classReadNext(i, slotName).val = composed(calls[i].options, slotName, val)
                    /\ ~classReadNext(i, slotName).invokedRender
                    /\ \A j \in Results :
                          sameKey(i, j) =>
                              /\ classReadNext(j, slotName).val =
                                    composed(calls[j].options, slotName, val)
                              /\ ~classReadNext(j, slotName).invokedRender
      ]_vars

\* the class the getter of classes[slot] finds in the store or the memo, or renders
foundClass(i, slotName) ==
    LET r == calls[i]
        store == storeOf(classesCache, themeOf(i))
    IN  IF r.cacheEnabled /\ keyOf(i, slotName) \in DOMAIN store
        THEN store[keyOf(i, slotName)]
        ELSE IF slotName \in DOMAIN r.classes /\ r.classes[slotName] # <<>>
        THEN r.classes[slotName]
        ELSE renderRule(styleRead(i, slotName).val, r.options)

RECURSIVE singleSpaceJoin(_)
singleSpaceJoin(members) ==
    IF members = <<>> THEN <<>>
    ELSE IF Len(members) = 1 THEN members[1]
    ELSE members[1] \o <<" ">> \o singleSpaceJoin(Tail(members))

\* no leading, trailing or duplicate blank
tidy(className) ==
    \A k \in 1..Len(className) :
        className[k] = " " => (k > 1 /\ k < Len(className) /\ className[k + 1] # " ")

\* C9: every read of classes.root returns the single-space join, in this order, of the
\* non-empty ones among the call's componentClassName, the generated-or-cached class and
\* the call's className, with no leading, trailing or duplicate blank; the classes store
\* holds the generated class alone.
C9_RootComposition ==
    \A i \in Results :
        "root" \in calls[i].slots =>
            LET o == calls[i].options
                out == classRead(i, "root").val
            IN  /\ out = singleSpaceJoin(SelectSeq(
                            <<o.className, foundClass(i, "root"), o.props.className>>,
                            LAMBDA m : m # <<>>))
                /\ tidy(out)
                /\ (/\ calls[i].cacheEnabled
                    /\ keyOf(i, "root") \in DOMAIN classesCache[themeOf(i)]
                    /\ ~assigned(calls, i, "root")) =>
                        classesCache[themeOf(i)][keyOf(i, "root")] =
                            renderRule(stylesCache[themeOf(i)][keyOf(i, "root")], o)

C9_Witness ==
    \E i, j \in Results :
        /\ sameKey(i, j)
        /\ calls[i].options.props.className = <<>>
        /\ calls[j].options.props.className = <<"custom">>
        /\ ~assigned(calls, i, "root")
        /\ calls[i].renderCalls["root"] = 1
        /\ calls[j].renderCalls["root"] = 0
        /\ classRead(j, "root").hit
        /\ classRead(i, "root").val =
                <<"ui-button", " ">> \o classesCache[themeOf(i)][keyOf(i, "root")]
        /\ classRead(j, "root").val = classRead(i, "root").val \o <<" ", "custom">>

----------------------------------------------------------------------------
(* Runs with a telemetry recorder *)

InitTelemetry ==
    \E tel \in Telemetries : \E input \in {"displayName", "className"} :
        InitWith(Env(FALSE, FALSE, Perf(TRUE, FALSE)), tel, Universe(Perf(TRUE, FALSE), input))

SpecTelemetry == InitTelemetry /\ [][Next]_vars

\* C10: while the recorder's enabled flag is false no read changes a hit counter or a
\* timer (every record keeps the values it started with).
C10_TelemetryGated ==
    (telemetry.present /\ ~telemetry.enabled) =>
        \A n \in DOMAIN telemetry.performance : telemetry.performance[n] = ZeroRecord

----------------------------------------------------------------------------
(* The eligibility rule over a wide range of props *)

WideVariables ==
    {Undefined, Null, Fn, Obj(<<>>),
     Obj(<<<<"isOn", "true">>>>),
     Obj(<<<<"isOn", "false">>, <<"size", "undefined">>, <<"tone", "null">>>>),
     Obj(<<<<"isOn", "true">>, <<"color", "\"red\"">>>>),
     Obj(<<<<"width", "1">>>>)}

EligibilityInputs(perf) ==
    {[BaseOptions(perf) EXCEPT !.props.design = d, !.props.styles = st,
                               !.props.variables = v] :
        d \in BOOLEAN, st \in BOOLEAN, v \in WideVariables}

InitEligibility ==
    \E p \in BOOLEAN : \E perf \in PerfFlags :
        InitWith(Env(p, FALSE, perf), NoTelemetry, EligibilityInputs(perf))

SpecEligibility == InitEligibility /\ [][Resolve]_vars

\* the rule as stated: variables are absent, or the boolean-variables optimisation is on
\* and they are a plain object whose every value is a boolean, undefined or null
statedNoVariableOverrides(perf, variables) ==
    \/ variables.kind \in {"undefined", "null"}
    \/ /\ perf.enableBooleanVariablesCaching
       /\ variables.kind = "object"
       /\ \A k \in 1..Len(variables.entries) :
              variables.entries[k][2] \in {"true", "false", "undefined", "null"}

\* C4: cacheEnabled of every call is enableStylesCaching AND (neither props.design nor
\* props.styles supplied) AND noVariableOverrides as stated; the only error a call
\* raises is the configuration error of a non-production build, so with both caching
\* flags on a non-boolean variable value yields cacheEnabled = false and no error.
C4_CacheEligibility ==
    /\ error = "configuration" =>
            /\ ~env.production
            /\ env.performance.enableBooleanVariablesCaching
            /\ ~env.performance.enableStylesCaching
    /\ env.performance.enableStylesCaching => error = ""
    /\ \A i \in Results :
          LET o == calls[i].options
          IN  calls[i].cacheEnabled <=>
                  /\ o.performance.enableStylesCaching
                  /\ ~o.props.design
                  /\ ~o.props.styles
                  /\ statedNoVariableOverrides(o.performance, o.props.variables)

C4_Witness ==
    /\ error = ""
    /\ \E i, j \in Results :
          /\ calls[i].options.performance = Perf(TRUE, TRUE)
          /\ calls[i].options.props.variables = Obj(<<<<"isOn", "true">>, <<"color", "\"red\"">>>>)
          /\ ~calls[i].options.props.design /\ ~calls[i].options.props.styles
          /\ ~calls[i].cacheEnabled
          /\ calls[j].options.props.variables =
                Obj(<<<<"isOn", "false">>, <<"size", "undefined">>, <<"tone", "null">>>>)
          /\ calls[j].cacheEnabled

----------------------------------------------------------------------------
(* C11..C20 *)

hits(tel, n) ==
    <<tel.performance[n].stylesRootCacheHits, tel.performance[n].stylesSlotsCacheHits>>

\* C11: with the recorder enabled and a record for the call's primary display name, a
\* read of classes.root served from the classes store adds exactly one to that record's
\* stylesRootCacheHits and leaves its stylesSlotsCacheHits alone, a read of another slot
\* served from the store does the converse; a read that misses, a read of a style value,
\* an assignment and a call change neither counter; and no read changes the record of
\* another display name.
C11_TelemetrySeparation ==
    [][/\ \A i \in Results : \A slotName \in calls[i].slots :
              LET n == calls[i].options.primaryDisplayName
                  g == classRead(i, slotName)
              IN  /\ (ReadClass(i, slotName) \/ ReadStyle(i, slotName)) =>
                        \A m \in DOMAIN telemetry.performance \ {n} :
                            telemetry'.performance[m] = telemetry.performance[m]
                  /\ (ReadClass(i, slotName) /\ timed(telemetry, n)) =>
                        hits(telemetry', n) =
                            IF ~g.hit THEN hits(telemetry, n)
                            ELSE IF slotName = "root"
                            THEN <<hits(telemetry, n)[1] + 1, hits(telemetry, n)[2]>>
                            ELSE <<hits(telemetry, n)[1], hits(telemetry, n)[2] + 1>>
                  /\ (ReadClass(i, slotName) /\ ~g.hit) =>
                        \A m \in DOMAIN telemetry.performance :
                            hits(telemetry', m) = hits(telemetry, m)
       /\ (\A i \in Results : \A slotName \in calls[i].slots : ~ReadClass(i, slotName)) =>
              \A m \in DOMAIN telemetry.performance : hits(telemetry', m) = hits(telemetry, m)
      ]_vars

C11_Witness ==
    /\ telemetry.enabled
    /\ "Button" \in DOMAIN telemetry.performance
    /\ hits(telemetry, "Button") = <<1, 1>>
    /\ telemetry.performance["Button"].msRenderStylesTotal = 2 * Tick
    /\ telemetry.performance["Ghost"] = ZeroRecord

\* C12: on a cache-enabled result, while the classes store holds the empty string under
\* the slot's key (rendered or assigned), a read of classes[slot] is a hit: it returns
\* the stored value (for root composed with the call's class names), invokes neither
\* the style function nor the renderer, and leaves the result and both stores as they are.
C12_EmptyClassIsAHit ==
    \A i \in Results : \A slotName \in calls[i].slots :
        (/\ calls[i].cacheEnabled
         /\ keyOf(i, slotName) \in DOMAIN classesCache[themeOf(i)]
         /\ classesCache[themeOf(i)][keyOf(i, slotName)] = <<>>) =>
            LET g == classRead(i, slotName)
            IN  /\ g.hit
                /\ ~g.invokedStyle
                /\ ~g.invokedRender
                /\ g.val = composed(calls[i].options, slotName, <<>>)
                /\ g.r = calls[i]
                /\ g.sc = stylesCache
                /\ g.cc = classesCache

C12_Witness ==
    \E i, j \in Results :
        /\ i # j
        /\ sameKey(i, j)
        /\ keyOf(i, "root") \in DOMAIN classesCache[themeOf(i)]
        /\ classesCache[themeOf(i)][keyOf(i, "root")] = <<>>
        /\ calls[i].renderCalls["root"] = 1
        /\ calls[j].renderCalls["root"] = 0
        /\ "root" \notin calls[i].seededClasses \cup calls[j].seededClasses
        /\ classRead(j, "root").hit
        /\ classRead(j, "root").val = calls[j].options.className

\* C13: a call with enableBooleanVariablesCaching on and enableStylesCaching off throws
\* in a non-production build, returning no result and leaving both caches exactly as
\* they were (no store created, no entry written, nothing computed); in a production
\* build, and with any other flags, the call throws nothing and returns a result, which
\* with these flags has caching off.
C13_ConfigurationError ==
    [][\A o \in inputs :
          resolveStyles(o) =>
              IF /\ o.performance.enableBooleanVariablesCaching
                 /\ ~o.performance.enableStylesCaching
                 /\ ~env.production
              THEN /\ error' = "configuration"
                   /\ calls' = calls
                   /\ stylesCache' = stylesCache
                   /\ classesCache' = classesCache
              ELSE /\ error' = ""
                   /\ Len(calls') = Len(calls) + 1
                   /\ calls'[Len(calls')].options = o
                   /\ (/\ o.performance.enableBooleanVariablesCaching
                       /\ ~o.performance.enableStylesCaching) =>
                          /\ ~calls'[Len(calls')].cacheEnabled
                          /\ stylesCache' = stylesCache
                          /\ classesCache' = classesCache
      ]_vars

C13_Witness ==
    /\ error = "configuration"
    /\ ~env.production
    /\ env.performance.enableBooleanVariablesCaching
    /\ ~env.performance.enableStylesCaching
    /\ calls = <<>>
    /\ stylesCache = <<>>
    /\ classesCache = <<>>

----------------------------------------------------------------------------
(* Runs of a non-production build with debug output enabled *)

InitDebug ==
    \E sc \in ({Perf(TRUE, FALSE)} \X {"displayName", "className"})
                \cup ({Perf(FALSE, FALSE)} \X {"styles"}) :
        InitWith(Env(FALSE, TRUE, sc[1]), NoTelemetry, Universe(sc[1], sc[2]))

SpecDebug == InitDebug /\ [][Next]_vars

\* the debug payload of a style object, as resolvedStylesDebug holds it
payloadOf(raw) == "debug:" \o raw.decl

\* C14: in a non-production build with debug enabled, when the style function of a slot
\* yields a style object with a debug payload, the read that invokes it returns the
\* object without the payload and puts the payload into resolvedStylesDebug[slot] of
\* its result; from then on that entry holds the payload, and the result's memo and the
\* theme's store entry (while not assigned through a setter) hold the object without it.
C14_DebugExtraction ==
    \A i \in Results : \A slotName \in calls[i].slots :
        LET raw == slotStyle(calls[i].options, slotName, env)
            g == styleRead(i, slotName)
        IN  (debugOn(env) /\ raw.debug) =>
                /\ g.invoked =>
                      /\ ~g.val.debug
                      /\ g.val.decl = raw.decl
                      /\ g.r.resolvedStylesDebug[slotName] = payloadOf(raw)
                      /\ ~g.r.resolvedStyles[slotName].debug
                      /\ calls[i].cacheEnabled => ~g.sc[themeOf(i)][keyOf(i, slotName)].debug
                /\ calls[i].styleFnCalls[slotName] > 0 =>
                      /\ slotName \in DOMAIN calls[i].resolvedStylesDebug
                      /\ calls[i].resolvedStylesDebug[slotName] = payloadOf(raw)
                      /\ ~g.val.debug
                      /\ ~calls[i].resolvedStyles[slotName].debug
                      /\ slotName \notin calls[i].seededStyles =>
                            calls[i].resolvedStyles[slotName] = [raw EXCEPT !.debug = FALSE]
                      /\ (calls[i].cacheEnabled /\ ~assigned(calls, i, slotName)) =>
                            stylesCache[themeOf(i)][keyOf(i, slotName)] =
                                [raw EXCEPT !.debug = FALSE]

C14_Witness ==
    \E i, j \in Results :
        /\ i # j
        /\ debugOn(env)
        /\ sameKey(i, j)
        /\ slotStyle(calls[i].options, "icon", env).debug
        /\ calls[i].styleFnCalls["icon"] = 1
        /\ calls[i].resolvedStylesDebug["icon"] =
                payloadOf(slotStyle(calls[i].options, "icon", env))
        /\ ~stylesCache[themeOf(i)][keyOf(i, "icon")].debug
        /\ ~styleRead(j, "icon").val.debug
        /\ calls[j].resolvedStylesDebug = <<>>

----------------------------------------------------------------------------
(* Runs that render components the theme declares no style set for *)

Undeclared(perf, names) ==
    [BaseOptions(perf) EXCEPT !.allDisplayNames = names, !.primaryDisplayName = names[1]]

WithStyles(o) == [o EXCEPT !.props.styles = TRUE]

MissingUniverses(perf) ==
    {{Undeclared(perf, <<"Ghost">>), Undeclared(perf, <<"Ghost", "Phantom">>)},
     {Undeclared(perf, <<"Ghost", "Phantom">>), BaseOptions(perf)},
     {Undeclared(perf, <<"Ghost">>), WithStyles(Undeclared(perf, <<"Ghost">>))}}

InitMissing ==
    \E perf \in {Perf(TRUE, FALSE), Perf(FALSE, FALSE)} : \E debug \in BOOLEAN :
        \E universe \in MissingUniverses(perf) :
            InitWith(Env(FALSE, debug, perf), NoTelemetry, universe)

SpecMissing == InitMissing /\ [][Next]_vars

EmptyStyle == [decl |-> "", debug |-> FALSE]

undeclared(i) == \A k \in 1..Len(calls[i].options.allDisplayNames) :
                    calls[i].options.allDisplayNames[k] \notin DeclaredNames

\* no setter has assigned the slot's style value, on this result or in the store it uses
unassigned(i, slotName) ==
    /\ slotName \notin calls[i].seededStyles
    /\ ~assigned(calls, i, slotName)

\* C15 as stated: a call none of whose display names has a style set in the theme raises
\* no error, and its result has exactly the slot "root", whose style value is an empty
\* style object.
C15_MissingStyleSet_AsStated ==
    /\ error = ""
    /\ \A i \in Results :
          undeclared(i) =>
              /\ calls[i].slots = {"root"}
              /\ unassigned(i, "root") => styleRead(i, "root").val = EmptyStyle

\* C15: a call none of whose display names has a style set in the theme raises no error
\* and its result has exactly the slot "root"; when the call supplies neither
\* props.design nor props.styles the style value of root is an empty style object,
\* before and after the read that computes it.
C15_MissingStyleSet ==
    /\ error = ""
    /\ \A i \in Results :
          undeclared(i) =>
              /\ calls[i].slots = {"root"}
              /\ (~inlineOverride(i) /\ unassigned(i, "root")) =>
                    /\ styleRead(i, "root").val = EmptyStyle
                    /\ styleRead(i, "root").invoked =>
                          styleRead(i, "root").r.resolvedStyles["root"] = EmptyStyle
                    /\ "root" \in DOMAIN calls[i].resolvedStyles =>
                          calls[i].resolvedStyles["root"] = EmptyStyle

C15_Witness ==
    \E i, j \in Results :
        /\ calls[i].options.allDisplayNames = <<"Ghost">>
        /\ calls[j].options.allDisplayNames = <<"Ghost", "Phantom">>
        /\ ~inlineOverride(i) /\ ~inlineOverride(j)
        /\ calls[i].slots = {"root"} /\ calls[j].slots = {"root"}
        /\ calls[i].styleFnCalls["root"] = 1
        /\ calls[j].styleFnCalls["root"] = 1
        /\ calls[i].resolvedStyles["root"] = EmptyStyle
        /\ calls[j].resolvedStyles["root"] = EmptyStyle
        /\ calls[i].seededStyles = {} /\ calls[j].seededStyles = {}

----------------------------------------------------------------------------
\* C16: a call of resolveStyles leaves every existing result and every existing store
\* of both caches as they are, at most adds an empty store for a theme that had none,
\* and returns a result on which nothing is computed yet; the invocation count of a
\* slot's style function grows only in a read of that slot's style value or class name,
\* and that of the renderer only in a read of that slot's class name.
C16_CallIsLazy ==
    [][/\ Resolve =>
              /\ \A i \in Results : calls'[i] = calls[i]
              /\ \A t \in DOMAIN stylesCache' :
                    stylesCache'[t] = IF t \in DOMAIN stylesCache THEN stylesCache[t] ELSE <<>>
              /\ \A t \in DOMAIN classesCache' :
                    classesCache'[t] = IF t \in DOMAIN classesCache THEN classesCache[t] ELSE <<>>
              /\ DOMAIN stylesCache \subseteq DOMAIN stylesCache'
              /\ DOMAIN classesCache \subseteq DOMAIN classesCache'
              /\ Len(calls') > Len(calls) =>
                    LET r == calls'[Len(calls')]
                    IN  /\ r.resolvedStyles = <<>>
                        /\ r.classes = <<>>
                        /\ r.resolvedStylesDebug = <<>>
                        /\ \A s \in r.slots : r.styleFnCalls[s] = 0 /\ r.renderCalls[s] = 0
       /\ \A i \in Results : \A s \in calls[i].slots :
              /\ calls'[i].styleFnCalls[s] # calls[i].styleFnCalls[s] =>
                    /\ ReadStyle(i, s) \/ ReadClass(i, s)
                    /\ calls'[i].styleFnCalls[s] = calls[i].styleFnCalls[s] + 1
              /\ calls'[i].renderCalls[s] # calls[i].renderCalls[s] =>
                    /\ ReadClass(i, s)
                    /\ calls'[i].renderCalls[s] = calls[i].renderCalls[s] + 1
      ]_vars

C16_Witness ==
    /\ Len(calls) = 2
    /\ calls[1].cacheEnabled /\ calls[2].cacheEnabled
    /\ themeOf(1) = "A" /\ themeOf(2) = "B"
    /\ calls[1].slots = {"root", "icon"}
    /\ calls[1].styleFnCalls["icon"] = 1
    /\ calls[1].styleFnCalls["root"] = 0
    /\ calls[1].renderCalls["icon"] = 0
    /\ DOMAIN stylesCache["A"] = {keyOf(1, "icon")}
    /\ classesCache["A"] = <<>>
    /\ stylesCache["B"] = <<>>
    /\ calls[2].resolvedStyles = <<>>
    /\ \A s \in calls[2].slots : calls[2].styleFnCalls[s] = 0 /\ calls[2].renderCalls[s] = 0

\* the entry of a theme's store under a key, <<>> standing for no entry
entry(cache, t, k) ==
    IF t \in DOMAIN cache /\ k \in DOMAIN cache[t] THEN <<cache[t][k]>> ELSE <<>>

\* the memo of a result for a slot, <<>> standing for none
memo(m, slotName) == IF slotName \in DOMAIN m THEN <<m[slotName]>> ELSE <<>>

AllKeys(cache) == UNION {DOMAIN cache[t] : t \in DOMAIN cache}

\* C17: a read or an assignment of slot s of a result (style value or class name)
\* invokes neither the style function nor the renderer of another slot t, leaves the
\* memos of t on that result and every other result as it is, and leaves unchanged
\* every entry of both caches under a key other than the key of s; hence what a read
\* of t returns, and whether it computes, is the same before and after.
C17_SlotsAreIndependent ==
    [][\A i \in Results : \A s \in calls[i].slots :
          Accesses(i, s) =>
              /\ \A j \in Results \ {i} : calls'[j] = calls[j]
              /\ \A t \in calls[i].slots \ {s} :
                    /\ calls'[i].styleFnCalls[t] = calls[i].styleFnCalls[t]
                    /\ calls'[i].renderCalls[t] = calls[i].renderCalls[t]
                    /\ memo(calls'[i].resolvedStyles, t) = memo(calls[i].resolvedStyles, t)
                    /\ memo(calls'[i].classes, t) = memo(calls[i].classes, t)
                    /\ styleReadNext(i, t).val = styleRead(i, t).val
                    /\ styleReadNext(i, t).invoked = styleRead(i, t).invoked
                    /\ classReadNext(i, t).val = classRead(i, t).val
                    /\ classReadNext(i, t).invokedRender = classRead(i, t).invokedRender
              /\ \A u \in DOMAIN stylesCache' :
                    \A k \in (AllKeys(stylesCache') \cup AllKeys(classesCache')) \ {keyOf(i, s)} :
                        /\ entry(stylesCache', u, k) = entry(stylesCache, u, k)
                        /\ entry(classesCache', u, k) = entry(classesCache, u, k)
      ]_vars

C17_Witness ==
    \E i \in Results :
        /\ calls[i].cacheEnabled
        /\ calls[i].slots = {"root", "icon"}
        /\ "root" \in calls[i].seededClasses
        /\ calls[i].styleFnCalls["root"] = 0
        /\ calls[i].styleFnCalls["icon"] = 1
        /\ calls[i].renderCalls["icon"] = 1
        /\ DOMAIN classesCache[themeOf(i)] = {keyOf(i, "root"), keyOf(i, "icon")}
        /\ DOMAIN stylesCache[themeOf(i)] = {keyOf(i, "icon")}
        /\ classesCache[themeOf(i)][keyOf(i, "icon")] =
                renderRule(freshStyle(i, "icon"), calls[i].options)
        /\ classesCache[themeOf(i)][keyOf(i, "root")] \in SeedClasses

----------------------------------------------------------------------------
(* Reads in which a collaborator throws. Nothing in resolveStyles catches: the   *)
(* exception leaves the getter at the call that threw, lines 189 and 262.        *)

\* line 189: mergedStyles[slotName](styleParam) throws; the assignment to the memo
\* and everything after it do not run
styleFnThrows(r, slotName) == [r EXCEPT !.styleFnCalls[slotName] = @ + 1]

rendererThrows_StoresEmpty(r, slotName, sc, cc, tel) ==
    LET g == styleGet(r, slotName, sc, tel)
    IN  [r |-> [g.r EXCEPT !.renderCalls[slotName] = @ + 1],
         sc |-> g.sc,
         cc |-> putIfEnabled(cc, r.cacheEnabled, r.options.theme,
                             slotCacheKey(r.componentCacheKey, slotName), <<>>),
         tel |-> g.tel]

\* line 262: renderer.renderRule throws, after the style getter returned at line 258
rendererThrows(r, slotName, sc, cc, tel) ==
    LET g == styleGet(r, slotName, sc, tel)
    IN  [r |-> [g.r EXCEPT !.renderCalls[slotName] = @ + 1],
         sc |-> g.sc, cc |-> cc, tel |-> g.tel]

ReadStyleThrows(i, slotName) ==
    LET g == styleGet(calls[i], slotName, stylesCache, telemetry)
    IN  /\ g.invoked
        /\ calls[i].styleFnCalls[slotName] < MaxFaults
        /\ calls' = [calls EXCEPT ![i] = styleFnThrows(calls[i], slotName)]
        /\ error' = "styleFunction"
        /\ UNCHANGED <<env, telemetry, inputs, stylesCache, classesCache>>

ReadClassThrows(i, slotName, thrower) ==
    LET g == classGet(calls[i], slotName, stylesCache, classesCache, telemetry)
        x == rendererThrows(calls[i], slotName, stylesCache, classesCache, telemetry)
    IN  /\ IF thrower = "styleFunction"
           THEN /\ g.invokedStyle
                /\ calls[i].styleFnCalls[slotName] < MaxFaults
                /\ calls' = [calls EXCEPT ![i] = styleFnThrows(calls[i], slotName)]
                /\ UNCHANGED <<telemetry, stylesCache, classesCache>>
           ELSE /\ g.invokedRender
                /\ calls[i].renderCalls[slotName] < MaxFaults
                /\ calls' = [calls EXCEPT ![i] = x.r]
                /\ stylesCache' = x.sc
                /\ classesCache' = x.cc
                /\ telemetry' = x.tel
        /\ error' = thrower
        /\ UNCHANGED <<env, inputs>>

NextFaulty ==
    \/ Resolve
    \/ \E i \in 1..Len(calls) : \E slotName \in calls[i].slots :
          \/ ReadStyle(i, slotName)
          \/ ReadClass(i, slotName)
          \/ ReadStyleThrows(i, slotName)
          \/ \E thrower \in {"styleFunction", "renderer"} : ReadClassThrows(i, slotName, thrower)

InitFaulty ==
    \E perf \in {Perf(TRUE, FALSE), Perf(FALSE, FALSE)} :
        InitWith(Env(FALSE, FALSE, perf), NoTelemetry, {BaseOptions(perf)})

SpecFaulty == InitFaulty /\ [][NextFaulty]_vars

\* C18: a read in which the slot's style function throws ends with that exception,
\* has invoked the function once, and leaves the slot's style memo and styles-store
\* entry absent and both caches unchanged; a class-name read in which the renderer
\* throws ends with that exception, has invoked the renderer once, and leaves the
\* slot's class memo without a class name and its classes-store entry absent. Nothing
\* being recorded, the next read of the slot invokes the collaborator again.
C18_CollaboratorFailure ==
    [][\A i \in Results : \A s \in calls[i].slots :
          /\ (ReadStyleThrows(i, s) \/ ReadClassThrows(i, s, "styleFunction")) =>
                /\ error' = "styleFunction"
                /\ calls'[i].styleFnCalls[s] = calls[i].styleFnCalls[s] + 1
                /\ calls'[i].renderCalls[s] = calls[i].renderCalls[s]
                /\ memo(calls'[i].resolvedStyles, s) = <<>>
                /\ entry(stylesCache', themeOf(i), keyOf(i, s)) = <<>>
                /\ memo(calls'[i].classes, s) = memo(calls[i].classes, s)
                /\ stylesCache' = stylesCache
                /\ classesCache' = classesCache
                /\ styleReadNext(i, s).invoked
          /\ ReadClassThrows(i, s, "renderer") =>
                /\ error' = "renderer"
                /\ calls'[i].renderCalls[s] = calls[i].renderCalls[s] + 1
                /\ calls'[i].styleFnCalls[s] =
                      calls[i].styleFnCalls[s] + (IF styleRead(i, s).invoked THEN 1 ELSE 0)
                /\ memo(calls'[i].classes, s) = memo(calls[i].classes, s)
                /\ ~classMemoized(calls'[i], s)
                /\ entry(classesCache', themeOf(i), keyOf(i, s)) = <<>>
                /\ classesCache' = classesCache
                /\ classReadNext(i, s).invokedRender
      ]_vars

C18_Witness ==
    /\ error = "renderer"
    /\ \E i \in Results :
          /\ calls[i].cacheEnabled
          /\ calls[i].styleFnCalls["root"] = 1
          /\ calls[i].renderCalls["root"] = 1
          /\ "root" \in DOMAIN calls[i].resolvedStyles
          /\ "root" \notin DOMAIN calls[i].classes
          /\ keyOf(i, "root") \in DOMAIN stylesCache[themeOf(i)]
          /\ keyOf(i, "root") \notin DOMAIN classesCache[themeOf(i)]
          /\ calls[i].styleFnCalls["icon"] = 1
          /\ "icon" \notin DOMAIN calls[i].resolvedStyles
          /\ keyOf(i, "icon") \notin DOMAIN stylesCache[themeOf(i)]

----------------------------------------------------------------------------
(* Runs that mix results with and without caching, and calls without a theme *)

\* lines 97 and 99: with theme undefined, theme.componentStyles throws a TypeError
\* before anything else happens (allDisplayNames is not empty)
resolveStylesWithoutTheme(o) ==
    /\ o.allDisplayNames # <<>>
    /\ error' = "TypeError"
    /\ UNCHANGED <<env, telemetry, inputs, stylesCache, classesCache, calls>>

ResolveWithoutTheme == \E o \in inputs : resolveStylesWithoutTheme(o)

NextUncached == Next \/ ResolveWithoutTheme

InitUncached ==
    \E sc \in ({Perf(TRUE, FALSE)} \X {"styles"})
                \cup ({Perf(TRUE, TRUE)} \X {"variables"})
                \cup ({Perf(FALSE, FALSE)} \X {"className"}) :
        InitWith(Env(FALSE, FALSE, sc[1]), NoTelemetry, Universe(sc[1], sc[2]))

SpecUncached == InitUncached /\ [][NextUncached]_vars

\* C19: a result for which caching is not in effect never touches the theme's stores:
\* the call that returns it, and every read and assignment on it, leave both caches
\* unchanged; no read on it is served from a store, and what a read returns is what it
\* would return with both caches empty. A call without a theme returns no result.
C19_UncachedLeavesStores ==
    [][/\ \A i \in Results : \A s \in calls[i].slots :
              ~calls[i].cacheEnabled =>
                  /\ Accesses(i, s) =>
                        /\ stylesCache' = stylesCache
                        /\ classesCache' = classesCache
                  /\ ~styleRead(i, s).hit
                  /\ ~classRead(i, s).hit
                  /\ styleRead(i, s).val = styleGet(calls[i], s, <<>>, telemetry).val
                  /\ classRead(i, s).val = classGet(calls[i], s, <<>>, <<>>, telemetry).val
       /\ (Len(calls') > Len(calls) /\ ~calls'[Len(calls')].cacheEnabled) =>
              /\ stylesCache' = stylesCache
              /\ classesCache' = classesCache
       /\ ResolveWithoutTheme =>
              /\ calls' = calls
              /\ stylesCache' = stylesCache
              /\ classesCache' = classesCache
      ]_vars

C19_Witness ==
    \E i, j \in Results :
        /\ calls[j].cacheEnabled
        /\ ~calls[i].cacheEnabled
        /\ themeOf(i) = themeOf(j)
        /\ DOMAIN stylesCache[themeOf(j)] = {keyOf(j, "root")}
        /\ DOMAIN classesCache[themeOf(j)] = {keyOf(j, "root")}
        /\ calls[i].seededStyles = {"icon"}
        /\ calls[i].renderCalls["root"] = 1
        /\ calls[i].styleFnCalls["root"] = 1
        /\ styleRead(i, "root").val # styleRead(j, "root").val

----------------------------------------------------------------------------
\* C20: for two cache-enabled results of the same theme with the same cache key, in
\* every state reached by reads and assignments on them: while the styles store has an
\* entry under the slot's key, a read of resolvedStyles[slot] on either result returns
\* that entry, whatever the result's own memo holds; and a read on one result followed
\* by a read on the other returns the same value twice.
C20_CrossCallConsistency ==
    \A i, j \in Results : \A s \in calls[i].slots :
        sameKey(i, j) =>
            LET first == styleRead(i, s)
                second == styleGet(calls[j], s, first.sc, first.tel)
            IN  /\ keyOf(i, s) \in DOMAIN stylesCache[themeOf(i)] =>
                      /\ first.val = stylesCache[themeOf(i)][keyOf(i, s)]
                      /\ styleRead(j, s).val = first.val
                      /\ ~first.invoked
                /\ second.val = first.val
                /\ i # j => ~second.invoked
                /\ memo(calls[i].resolvedStyles, s) # <<>> =>
                      keyOf(i, s) \in DOMAIN stylesCache[themeOf(i)]

C20_Witness ==
    \E i, j \in Results :
        /\ i # j
        /\ sameKey(i, j)
        /\ "icon" \in calls[i].slots
        /\ calls[i].styleFnCalls["icon"] = 1
        /\ "icon" \in DOMAIN calls[i].resolvedStyles
        /\ calls[i].resolvedStyles["icon"] = freshStyle(i, "icon")
        /\ calls[j].seededStyles = {"icon"}
        /\ stylesCache[themeOf(i)][keyOf(i, "icon")] # calls[i].resolvedStyles["icon"]
        /\ styleRead(i, "icon").val = stylesCache[themeOf(i)][keyOf(i, "icon")]
        /\ styleRead(i, "icon").val = styleRead(j, "icon").val

====
